---- MODULE Spec2Model ----
(***************************************************************************)
(* news-narrative-tracker: the RSS scraper (src/scrapers/rss.py) and the   *)
(* Reddit scraper (src/scrapers/reddit.py) as one state machine.           *)
(*                                                                         *)
(* A client issues one call at a time (fetch_all, search, fetch_news,      *)
(* fetch_feed, get_subreddit_posts, search_subreddit).  The remote feeds   *)
(* and the Reddit responses are the environment.  Python values are        *)
(* modelled by what the code reads of them:                                *)
(*   - a str is a sequence of one-character strings;                       *)
(*   - a loosely typed raw value carries its dynamic type in field t;      *)
(*   - the result of an awaited call is List(items) when it returned a     *)
(*     list and Exc(e) when it raised e.                                   *)
(* scraped_at (datetime.now at construction) is left out of the records:   *)
(* nothing in the scrapers reads it back.                                  *)
(***************************************************************************)
EXTENDS Integers, Sequences, FiniteSets

VARIABLES
    remote,        \* what each configured feed serves: source name -> entries
    pc,            \* where the current call is: idle, gather, parsing, reddit, done
    call,          \* the current call: its operation and arguments
    results,       \* fetch_all: the list asyncio.gather fills
    all_articles,  \* what fetch_all returned (search's all_articles)
    outcome,       \* what the current call returned or raised
    parseCalls,    \* transport calls made for the current call
    request,       \* reddit.py: the params of the request sent
    response,      \* single fetch: what the transport call produced
    prev           \* the aggregation run right before the current fetch_all

vars == <<remote, pc, call, results, all_articles, outcome, parseCalls,
          request, response, prev>>

----------------------------------------------------------------------------
(* Bounds of the model                                                     *)

\* number of entries of the FEEDS table that are configured in the model
NumFeeds == 2
\* longest payload (feed entries, listing children) the environment serves,
\* apart from the one over-long feed LongFeed
MaxEntries == 2
\* longest feed when every source serves a feed of its own
MaxOwnEntries == 1

----------------------------------------------------------------------------
(* Program constants                                                       *)

\* feed.entries[:25]
FeedLimit == 25
\* min(100, limit)
MaxLimit == 100
\* limit: int = 25
DefaultLimit == 25

----------------------------------------------------------------------------
(* Strings                                                                 *)

Chars == {"A", "a", "B", "b", "1", "2"}

\* code point order of the characters used ("1" < "2" < "A" < "B" < "a" < "b")
Ord(c) ==
    CASE c = "1" -> 49 [] c = "2" -> 50 [] c = "A" -> 65
      [] c = "B" -> 66 [] c = "a" -> 97 [] c = "b" -> 98

\* str.lower(), one character
LowerChar(c) == CASE c = "A" -> "a" [] c = "B" -> "b" [] OTHER -> c

\* str.lower()
Lower(s) == [k \in 1..Len(s) |-> LowerChar(s[k])]

\* sub in s  (Python substring test)
Contains(sub, s) ==
    \E off \in 0..(Len(s) - Len(sub)) :
        \A k \in 1..Len(sub) : s[off + k] = sub[k]

----------------------------------------------------------------------------
(* Loosely typed raw values and results of calls                           *)

StrVal(x) == [t |-> "str", s |-> x, n |-> 0]
IntVal(k) == [t |-> "int", s |-> <<>>, n |-> k]
NoneVal == [t |-> "none", s |-> <<>>, n |-> 0]

\* dict.get(key, default)
Get(d, key, default) == IF key \in DOMAIN d THEN d[key] ELSE default

List(items) == [kind |-> "list", items |-> items, err |-> "none"]
Exc(e) == [kind |-> "exc", items |-> <<>>, err |-> e]
Pending == [kind |-> "pending", items |-> <<>>, err |-> "none"]

\* seq[:n]
Take(seq, n) == SubSeq(seq, 1, IF Len(seq) < n THEN Len(seq) ELSE n)

RECURSIVE Flatten(_)
\* the concatenation of a sequence of sequences
Flatten(ss) == IF ss = <<>> THEN <<>> ELSE Head(ss) \o Flatten(Tail(ss))

----------------------------------------------------------------------------
(* rss.py                                                                  *)

AllFeedNames == <<"bbc", "reuters", "npr", "techcrunch", "hackernews", "wired", "theverge">>

\* the FEEDS table, in its insertion order, cut to NumFeeds sources
FEEDS == SubSeq(AllFeedNames, 1, NumFeeds)

FeedNames == {FEEDS[i] : i \in 1..NumFeeds}

IsConfiguredAlways(source) == TRUE

\* source in self.FEEDS
IsConfigured(source) == source \in FeedNames

\* NewsArticle(title=..., summary=..., link=..., published=..., source=source):
\* the four fields read from the entry are declared str, and the model
\* validates them on construction
ArticleValid(entry) ==
    /\ Get(entry, "title", StrVal(<<>>)).t = "str"
    /\ Get(entry, "summary", StrVal(<<>>)).t = "str"
    /\ Get(entry, "link", StrVal(<<>>)).t = "str"
    /\ Get(entry, "published", StrVal(<<>>)).t = "str"

NewsArticle(entry, source) ==
    [title |-> Get(entry, "title", StrVal(<<>>)).s,
     summary |-> Get(entry, "summary", StrVal(<<>>)).s,
     link |-> Get(entry, "link", StrVal(<<>>)).s,
     published |-> Get(entry, "published", StrVal(<<>>)).s,
     source |-> source]

ParseRaised == [raised |-> TRUE, entries |-> <<>>]
Parsed(entries) == [raised |-> FALSE, entries |-> entries]

fetch_feed_swallow(source, feed) ==
    LET entries == Take(feed.entries, FeedLimit)
    IN IF feed.raised \/ \E k \in 1..Len(entries) : ~ArticleValid(entries[k])
       THEN List(<<>>)
       ELSE List([k \in 1..Len(entries) |-> NewsArticle(entries[k], source)])

\* fetch_feed from the await of feedparser.parse on: feed is what the
\* executor call produced (a parsed feed, or a raised fault, which the await
\* re-raises); a NewsArticle that does not validate raises out of the loop
fetch_feed(source, feed) ==
    IF feed.raised THEN Exc("TransportError")
    ELSE LET entries == Take(feed.entries, FeedLimit)
         IN IF \E k \in 1..Len(entries) : ~ArticleValid(entries[k])
            THEN Exc("ValidationError")
            ELSE List([k \in 1..Len(entries) |-> NewsArticle(entries[k], source)])

\* fetch_feed up to the await: the membership test, then the table lookup
fetch_feed_entry(source) ==
    IF ~IsConfigured(source) THEN Exc("ValueError")
    ELSE IF ~(source \in FeedNames) THEN Exc("KeyError")
    ELSE Pending

GatherStoreAsCompleted(res, i, r) ==
    LET j == CHOOSE m \in 1..Len(res) :
                 /\ res[m].kind = "pending"
                 /\ \A l \in 1..(m - 1) : res[l].kind # "pending"
    IN [res EXCEPT ![j] = r]

\* asyncio.gather: the result of the i-th awaitable goes to position i
GatherStore(res, i, r) == [res EXCEPT ![i] = r]

GatherReadyFirstException(res) ==
    \/ \A i \in 1..Len(res) : res[i].kind # "pending"
    \/ \E i \in 1..Len(res) : res[i].kind = "exc"

\* asyncio.gather(..., return_exceptions=True) resumes the awaiting caller
\* when every awaitable is done
GatherReady(res) == \A i \in 1..Len(res) : res[i].kind # "pending"

\* a > b for two str values (code point order, then length)
StrGreater(a, b) ==
    \E k \in 1..Len(a) :
        /\ \A l \in 1..(k - 1) : l <= Len(b) /\ a[l] = b[l]
        /\ (k > Len(b) \/ (a[k] # b[k] /\ Ord(a[k]) > Ord(b[k])))

RECURSIVE InsertDesc(_, _)
InsertDesc(a, sorted) ==
    IF sorted = <<>> THEN <<a>>
    ELSE IF StrGreater(a.published, Head(sorted).published) THEN <<a>> \o sorted
    ELSE <<Head(sorted)>> \o InsertDesc(a, Tail(sorted))

RECURSIVE SortDesc(_)
\* a stable sort by published, descending
SortDesc(seq) ==
    IF seq = <<>> THEN <<>>
    ELSE InsertDesc(seq[Len(seq)], SortDesc(SubSeq(seq, 1, Len(seq) - 1)))

fetch_all_sorted(res) ==
    List(SortDesc(Flatten([i \in 1..Len(res) |->
        IF res[i].kind = "list" THEN res[i].items ELSE <<>>])))

fetch_all_unfiltered(res) ==
    IF \E i \in 1..Len(res) : res[i].kind # "list"
    THEN Exc("TypeError")
    ELSE List(Flatten([i \in 1..Len(res) |-> res[i].items]))

fetch_all_keep_failures(res) ==
    List(Flatten([i \in 1..Len(res) |->
        IF res[i].kind = "list" THEN res[i].items
        ELSE <<[title |-> <<>>, summary |-> <<>>, link |-> <<>>,
                published |-> <<>>, source |-> FEEDS[i]]>>]))

\* fetch_all after the gather: articles.extend(result) for every result
\* that is a list, in the order of results
fetch_all(res) ==
    List(Flatten([i \in 1..Len(res) |->
        IF res[i].kind = "list" THEN res[i].items ELSE <<>>]))

RECURSIVE Filter(_, _)
\* [a for a in all_articles if query_lower in a.title.lower() or ...]
Filter(articles, query_lower) ==
    IF articles = <<>> THEN <<>>
    ELSE LET a == Head(articles)
         IN (IF \/ Contains(query_lower, Lower(a.title))
                \/ Contains(query_lower, Lower(a.summary))
             THEN <<a>> ELSE <<>>) \o Filter(Tail(articles), query_lower)

search_case_sensitive(fetched, query) == List(Filter(fetched.items, query))

\* search after the await of fetch_all
search(fetched, query) == List(Filter(fetched.items, Lower(query)))

----------------------------------------------------------------------------
(* reddit.py                                                               *)

SUBREDDITS == {"technology", "news"}

\* RedditPost(...): the declared field types are validated on construction
PostValid(post_data, subreddit) ==
    /\ Get(post_data, "id", StrVal("")).t = "str"
    /\ Get(post_data, "subreddit", StrVal(subreddit)).t = "str"
    /\ Get(post_data, "title", StrVal("")).t = "str"
    /\ Get(post_data, "selftext", StrVal("")).t = "str"
    /\ Get(post_data, "author", StrVal("")).t = "str"
    /\ Get(post_data, "score", IntVal(0)).t = "int"
    /\ Get(post_data, "num_comments", IntVal(0)).t = "int"
    /\ Get(post_data, "url", StrVal("")).t = "str"
    /\ Get(post_data, "permalink", StrVal("")).t = "str"
    /\ Get(post_data, "created_utc", IntVal(0)).t = "int"

RedditPost(post_data, subreddit) ==
    [post_id |-> Get(post_data, "id", StrVal("")).s,
     subreddit |-> Get(post_data, "subreddit", StrVal(subreddit)).s,
     title |-> Get(post_data, "title", StrVal("")).s,
     content |-> Get(post_data, "selftext", StrVal("")).s,
     author |-> Get(post_data, "author", StrVal("")).s,
     score |-> Get(post_data, "score", IntVal(0)).n,
     num_comments |-> Get(post_data, "num_comments", IntVal(0)).n,
     url |-> Get(post_data, "url", StrVal("")).s,
     permalink |-> Get(post_data, "permalink", StrVal("")).s,
     created_utc |-> Get(post_data, "created_utc", IntVal(0)).n]

\* data.get("data", {}).get("children", [])
Children(data) == Get(Get(data, "data", <<>>), "children", <<>>)

\* _parse_posts: one RedditPost per child, in the payload's order; a post
\* that does not validate raises out of the loop
_parse_posts(data, subreddit) ==
    LET children == Children(data)
    IN IF \E k \in 1..Len(children) :
              ~PostValid(Get(children[k], "data", <<>>), subreddit)
       THEN Exc("ValidationError")
       ELSE List([k \in 1..Len(children) |->
                    RedditPost(Get(children[k], "data", <<>>), subreddit)])

NetError == [net |-> "error", status |-> 0, json |-> FALSE, data |-> <<>>]
Http(status, json, data) == [net |-> "ok", status |-> status, json |-> json, data |-> data]

\* params = {"limit": min(100, limit)}
Params(limit, q) == [limit |-> IF MaxLimit < limit THEN MaxLimit ELSE limit, q |-> q]

reddit_fetch_swallow(resp, subreddit) ==
    IF resp.net = "error" \/ ~(resp.status \in 200..299) \/ ~resp.json
    THEN List(<<>>)
    ELSE _parse_posts(resp.data, subreddit)

\* get_subreddit_posts / search_subreddit from the await of client.get on:
\* client.get raises on a network fault, raise_for_status on an error
\* status, response.json on a body that is not JSON
reddit_fetch(resp, subreddit) ==
    IF resp.net = "error" THEN Exc("TransportError")
    ELSE IF ~(resp.status \in 200..299) THEN Exc("HTTPStatusError")
    ELSE IF ~resp.json THEN Exc("JSONDecodeError")
    ELSE _parse_posts(resp.data, subreddit)

----------------------------------------------------------------------------
(* The environment: feed entries, Reddit children, queries                 *)

SeqsUpTo(S, n) == UNION {[1..m -> S] : m \in 0..n}

E1 == [title |-> StrVal(<<"A", "b">>), summary |-> StrVal(<<>>),
       link |-> StrVal(<<"1">>), published |-> StrVal(<<"1">>)]
E2 == [title |-> StrVal(<<"b">>), summary |-> StrVal(<<"B", "1">>),
       link |-> StrVal(<<"2">>), published |-> StrVal(<<"2">>)]
\* an entry with fields missing
E3 == [link |-> StrVal(<<"1", "2">>)]
\* an entry with a field of the wrong type
E4 == [title |-> NoneVal, summary |-> StrVal(<<>>),
       link |-> StrVal(<<"2">>), published |-> StrVal(<<"1">>)]

\* a feed with more entries than fetch_feed takes
LongFeed == [k \in 1..(FeedLimit + 1) |-> IF k = 1 THEN E2 ELSE E1]

\* every source serves its own feed of well-formed entries ...
DiverseRemotes == [FeedNames -> SeqsUpTo({E1, E2}, MaxOwnEntries)]
\* ... or all sources serve the same feed, of any entries
UniformRemotes ==
    {[s \in FeedNames |-> p] : p \in SeqsUpTo({E1, E2, E3, E4}, MaxEntries) \cup {LongFeed}}

Queries == {<<>>, <<"A", "B">>, <<"b">>}

R1 == [data |-> [id |-> StrVal("t3_1"), title |-> StrVal("Ab"),
                 selftext |-> StrVal(""), author |-> StrVal("u"),
                 score |-> IntVal(2), num_comments |-> IntVal(1),
                 url |-> StrVal("u1"), permalink |-> StrVal("/r/1"),
                 subreddit |-> StrVal("news"), created_utc |-> IntVal(1)]]
\* a child whose data has fields missing
R2 == [data |-> [id |-> StrVal("t3_2")]]
\* a child whose data has a null title
R3 == [data |-> [id |-> StrVal("t3_3"), title |-> NoneVal]]
\* a child with no data at all
R4 == [kind |-> "t3"]

Listing(children) == [data |-> [children |-> children]]

RedditResponses ==
    {NetError, Http(500, FALSE, <<>>), Http(200, FALSE, <<>>), Http(200, TRUE, <<>>)}
    \cup {Http(200, TRUE, Listing(c)) : c \in SeqsUpTo({R1, R2, R3, R4}, MaxEntries)}

Limits == {1, DefaultLimit, MaxLimit + 1}

NoPrev == [has |-> FALSE, kinds |-> <<>>, merged |-> Pending]
NoRequest == [limit |-> 0, q |-> <<>>]
NoResponse == [none |-> TRUE]

----------------------------------------------------------------------------
(* The state machine                                                       *)

\* the calls that run fetch_all: fetch_all, search, fetch_news("all")
IsAggregate(c) == c.op \in {"fetch_all", "search"} \/ (c.op = "fetch_news" /\ c.source = "all")

Init ==
    /\ remote \in DiverseRemotes \cup UniformRemotes
    /\ pc = "idle"
    /\ call = [op |-> "none", source |-> "", query |-> <<>>, limit |-> 0]
    /\ results = <<>>
    /\ all_articles = Pending
    /\ outcome = Pending
    /\ parseCalls = 0
    /\ request = NoRequest
    /\ response = NoResponse
    /\ prev = NoPrev

\* fetch_all(), search(query) and fetch_news("all") up to the await of the
\* gather: one fetch_feed coroutine per source of FEEDS, in table order, each
\* run up to its own await
CallAggregate(op, q) ==
    /\ pc \in {"idle", "done"}
    /\ pc' = "gather"
    /\ call' = [op |-> op, source |-> IF op = "fetch_news" THEN "all" ELSE "",
                query |-> q, limit |-> 0]
    /\ results' = [i \in 1..NumFeeds |-> fetch_feed_entry(FEEDS[i])]
    /\ parseCalls' = Cardinality({i \in 1..NumFeeds : results'[i].kind = "pending"})
    /\ all_articles' = Pending
    /\ outcome' = Pending
    /\ request' = NoRequest
    /\ response' = NoResponse
    /\ prev' = IF op = "fetch_all" /\ pc = "done" /\ IsAggregate(call)
               THEN [has |-> TRUE,
                     kinds |-> [i \in 1..Len(results) |-> results[i].kind],
                     merged |-> all_articles]
               ELSE NoPrev
    /\ UNCHANGED remote

\* the executor call of the i-th coroutine ends (with the feed, or with a
\* raised fault) and the coroutine runs to its end
TaskDone(i) ==
    /\ pc = "gather"
    /\ results[i].kind = "pending"
    /\ \E feed \in {ParseRaised, Parsed(remote[FEEDS[i]])} :
           results' = GatherStore(results, i, fetch_feed(FEEDS[i], feed))
    /\ UNCHANGED <<remote, pc, call, all_articles, outcome, parseCalls,
                   request, response, prev>>

\* the gather resumes fetch_all, which merges and returns; search filters
\* what fetch_all returned
GatherReturn ==
    /\ pc = "gather"
    /\ GatherReady(results)
    /\ all_articles' = fetch_all(results)
    /\ outcome' = IF call.op = "search" /\ all_articles'.kind = "list"
                  THEN search(all_articles', call.query)
                  ELSE all_articles'
    /\ pc' = "done"
    /\ UNCHANGED <<remote, call, results, parseCalls, request, response, prev>>

\* fetch_feed(source), fetch_news(source) with source # "all", up to the await
CallFeed(op, source) ==
    /\ pc \in {"idle", "done"}
    /\ call' = [op |-> op, source |-> source, query |-> <<>>, limit |-> 0]
    /\ LET e == fetch_feed_entry(source)
       IN /\ pc' = IF e.kind = "pending" THEN "parsing" ELSE "done"
          /\ outcome' = e
          /\ parseCalls' = IF e.kind = "pending" THEN 1 ELSE 0
    /\ results' = <<>>
    /\ all_articles' = Pending
    /\ request' = NoRequest
    /\ response' = NoResponse
    /\ prev' = NoPrev
    /\ UNCHANGED remote

\* the executor call ends and fetch_feed runs to its end
FeedDone ==
    /\ pc = "parsing"
    /\ \E feed \in {ParseRaised, Parsed(remote[call.source])} :
           /\ response' = feed
           /\ outcome' = fetch_feed(call.source, feed)
    /\ pc' = "done"
    /\ UNCHANGED <<remote, call, results, all_articles, parseCalls, request, prev>>

\* get_subreddit_posts(subreddit, limit), search_subreddit(subreddit, query,
\* limit) up to the await of client.get
CallReddit(op, subreddit, q, limit) ==
    /\ pc \in {"idle", "done"}
    /\ call' = [op |-> op, source |-> subreddit, query |-> q, limit |-> limit]
    /\ request' = Params(limit, q)
    /\ pc' = "reddit"
    /\ outcome' = Pending
    /\ parseCalls' = 1
    /\ results' = <<>>
    /\ all_articles' = Pending
    /\ response' = NoResponse
    /\ prev' = NoPrev
    /\ UNCHANGED remote

\* client.get ends and the call runs to its end
RedditDone ==
    /\ pc = "reddit"
    /\ \E resp \in RedditResponses :
           /\ response' = resp
           /\ outcome' = reddit_fetch(resp, call.source)
    /\ pc' = "done"
    /\ UNCHANGED <<remote, call, results, all_articles, parseCalls, request, prev>>

FetchAllCall == CallAggregate("fetch_all", <<>>)
FetchNewsAllCall == CallAggregate("fetch_news", <<>>)
SearchCall == \E q \in Queries : CallAggregate("search", q)
TaskDoneSome == \E i \in 1..NumFeeds : TaskDone(i)
FetchFeedCall == \E source \in FeedNames \cup {"unknown"} : CallFeed("fetch_feed", source)
FetchNewsCall == \E source \in FeedNames \cup {"unknown"} : CallFeed("fetch_news", source)
GetSubredditPostsCall ==
    \E subreddit \in SUBREDDITS, limit \in Limits :
        CallReddit("get_subreddit_posts", subreddit, <<>>, limit)
SearchSubredditCall ==
    \E subreddit \in SUBREDDITS, limit \in Limits :
        CallReddit("search_subreddit", subreddit, <<"A">>, limit)

\* rss.py
Next ==
    \/ FetchAllCall
    \/ FetchNewsAllCall
    \/ SearchCall
    \/ TaskDoneSome
    \/ GatherReturn
    \/ FetchFeedCall
    \/ FetchNewsCall
    \/ FeedDone

Spec == Init /\ [][Next]_vars

\* the single-source fetches of rss.py and reddit.py
FetchInit == Init /\ remote \in UniformRemotes

FetchNext ==
    \/ FetchFeedCall
    \/ FetchNewsCall
    \/ FeedDone
    \/ GetSubredditPostsCall
    \/ SearchSubredditCall
    \/ RedditDone

FetchSpec == FetchInit /\ [][FetchNext]_vars

----------------------------------------------------------------------------
(* Vocabulary of the properties                                            *)

\* an aggregation call has returned
AggDone == pc = "done" /\ IsAggregate(call)

\* the i-th source's fetch ended by raising
Failed(i) == results[i].kind = "exc"

\* the records of seq whose source field is s, in seq's order
RecordsOf(seq, s) == SelectSeq(seq, LAMBDA a : a.source = s)

\* the position of source s in the FEEDS table
FeedIndex(s) == CHOOSE i \in 1..NumFeeds : FEEDS[i] = s

\* the total number of records in the list-typed results
RECURSIVE ListedCount(_)
ListedCount(i) ==
    IF i = 0 THEN 0
    ELSE ListedCount(i - 1) + (IF results[i].kind = "list" THEN Len(results[i].items) ELSE 0)

----------------------------------------------------------------------------
(* C1  When an aggregation call has returned, it returned a list (it did   *)
(* not raise), and for every configured source the records of that source  *)
(* in the merged list are exactly the records its fetch returned if the    *)
(* fetch succeeded, and none if the fetch failed; every merged record      *)
(* belongs to a configured source.  So with every fetch failed the merged  *)
(* list is empty.                                                          *)
C1_PartialFailure ==
    AggDone =>
        /\ all_articles.kind = "list"
        /\ \A i \in 1..NumFeeds :
               RecordsOf(all_articles.items, FEEDS[i]) =
                   (IF Failed(i) THEN <<>> ELSE results[i].items)
        /\ \A j \in 1..Len(all_articles.items) :
               all_articles.items[j].source \in FeedNames
        /\ ((\A i \in 1..NumFeeds : Failed(i)) => all_articles.items = <<>>)

\* a run returned in which one source failed and another delivered records
C1_Witness ==
    /\ AggDone
    /\ \E i, j \in 1..NumFeeds : Failed(i) /\ ~Failed(j) /\ Len(results[j].items) > 0

----------------------------------------------------------------------------
(* C2  As claimed: what the aggregation returns names every source whose   *)
(* fetch failed (an entry of the returned value carries that source's      *)
(* name), so that the caller can enumerate the failed sources.             *)
C2_FailuresReturned ==
    AggDone =>
        \A i \in 1..NumFeeds :
            Failed(i) =>
                \E j \in 1..Len(all_articles.items) :
                    all_articles.items[j].source = FEEDS[i]

(* C2  As amended: the failures exist only in the list the gather filled,  *)
(* which holds one entry per configured source, a raised fault for a       *)
(* failed fetch and a list for a successful one; fetch_all returns only    *)
(* the merged records: as many as the list-typed results hold, none of     *)
(* them naming a failed source.                                            *)
C2_FailuresDropped ==
    AggDone =>
        /\ Len(results) = NumFeeds
        /\ \A i \in 1..NumFeeds :
               /\ results[i].kind \in {"list", "exc"}
               /\ Failed(i) => results[i].err \in {"TransportError", "ValidationError"}
        /\ all_articles.kind = "list"
        /\ Len(all_articles.items) = ListedCount(NumFeeds)
        /\ \A j \in 1..Len(all_articles.items), i \in 1..NumFeeds :
               Failed(i) => all_articles.items[j].source # FEEDS[i]

\* a run returned a non-empty list although a source had failed
C2_Witness ==
    /\ AggDone
    /\ \E i \in 1..NumFeeds : Failed(i)
    /\ all_articles.kind = "list"
    /\ Len(all_articles.items) > 0

----------------------------------------------------------------------------
(* C3  Join-all.  A step that ends an aggregation call ends it with every  *)
(* per-source fetch at a terminal outcome (a list or a raised fault); and  *)
(* while the gather waits, a step ends at most one fetch and leaves every  *)
(* other fetch as it was, pending ones pending: a failure cancels and      *)
(* skips nothing.                                                          *)
C3_JoinAll ==
    [][/\ (pc' = "done" /\ IsAggregate(call')) =>
              /\ Len(results') = NumFeeds
              /\ \A i \in 1..NumFeeds : results'[i].kind \in {"list", "exc"}
       /\ (pc = "gather" /\ pc' = "gather") =>
              /\ Cardinality({i \in 1..NumFeeds : results'[i] # results[i]}) <= 1
              /\ \A i \in 1..NumFeeds :
                     results[i].kind # "pending" => results'[i] = results[i]
       /\ (pc = "gather" /\ pc' = "done") => results' = results]_vars

\* the gather is still waiting after one fetch has failed
C3_Witness ==
    /\ pc = "gather"
    /\ \E i, j \in 1..NumFeeds : Failed(i) /\ results[j].kind = "pending"

----------------------------------------------------------------------------
\* the articles fetch_feed builds from what source s serves
Served(s) ==
    LET entries == Take(remote[s], FeedLimit)
    IN [k \in 1..Len(entries) |-> NewsArticle(entries[k], s)]

(* C4  As claimed: the merged list is ordered by published, descending     *)
(* under string comparison: no record is preceded by a record with a       *)
(* smaller published.  (The clause on ties adds nothing to refute: the     *)
(* ordering alone fails.)                                                  *)
C4_SortedByPublished ==
    AggDone =>
        \A j, k \in 1..Len(all_articles.items) :
            j < k => ~StrGreater(all_articles.items[k].published,
                                 all_articles.items[j].published)

(* C4  As amended: the merged list is the concatenation, in the order of   *)
(* the FEEDS table, of the successful sources' lists, each in the order    *)
(* of its feed; published is not read and nothing is sorted.               *)
C4_TableOrder ==
    AggDone =>
        /\ \A j, k \in 1..Len(all_articles.items) :
               j < k => FeedIndex(all_articles.items[j].source)
                            <= FeedIndex(all_articles.items[k].source)
        /\ \A i \in 1..NumFeeds :
               RecordsOf(all_articles.items, FEEDS[i]) =
                   (IF Failed(i) THEN <<>> ELSE Served(FEEDS[i]))

\* a run returned a list in which a later record has the greater published
C4_Witness ==
    /\ AggDone
    /\ \E j, k \in 1..Len(all_articles.items) :
           /\ j < k
           /\ all_articles.items[j].source # all_articles.items[k].source
           /\ StrGreater(all_articles.items[k].published,
                         all_articles.items[j].published)

----------------------------------------------------------------------------
(* C5  Two consecutive aggregation runs over the same feeds in which the   *)
(* same fetches succeeded and the same failed return the same merged       *)
(* list, whatever the order in which the fetches of either run ended.      *)
C5_Deterministic ==
    (/\ pc = "done"
     /\ call.op = "fetch_all"
     /\ prev.has
     /\ prev.kinds = [i \in 1..Len(results) |-> results[i].kind])
        => all_articles = prev.merged

\* a second run returned records of two sources, as the first one had
C5_Witness ==
    /\ pc = "done"
    /\ call.op = "fetch_all"
    /\ prev.has
    /\ prev.kinds = [i \in 1..Len(results) |-> results[i].kind]
    /\ \E j, k \in 1..Len(all_articles.items) :
           all_articles.items[j].source # all_articles.items[k].source

----------------------------------------------------------------------------
(* C8  A fetch_feed or fetch_news call for a source that is not in the     *)
(* FEEDS table (and is not "all") is over at once: it raised ValueError,   *)
(* returned no record, and made no transport call, in no state of it.      *)
C8_UnknownSource ==
    (call.op \in {"fetch_feed", "fetch_news"} /\ ~(call.source \in FeedNames \cup {"all"}))
        => /\ pc = "done"
           /\ outcome = Exc("ValueError")
           /\ parseCalls = 0
           /\ response = NoResponse

\* fetch_news was called with a source that is not configured
C8_Witness ==
    /\ call.op = "fetch_news"
    /\ call.source = "unknown"
    /\ outcome.kind = "exc"

----------------------------------------------------------------------------
\* two characters that differ at most in case
SameLetter(c, d) == c = d \/ {c, d} = {"A", "a"} \/ {c, d} = {"B", "b"}

\* q occurs in s, case ignored
OccursIn(q, s) ==
    \E off \in 0..(Len(s) - Len(q)) : \A k \in 1..Len(q) : SameLetter(q[k], s[off + k])

(* C10  search(query) returns exactly the records fetch_all returned whose *)
(* title or summary contains the query, case ignored, in fetch_all's       *)
(* order; for the empty query it returns all of them.                      *)
C10_Search ==
    (pc = "done" /\ call.op = "search") =>
        /\ outcome.kind = "list"
        /\ outcome.items =
               SelectSeq(all_articles.items,
                         LAMBDA a : OccursIn(call.query, a.title)
                                        \/ OccursIn(call.query, a.summary))
        /\ (call.query = <<>> => outcome.items = all_articles.items)

\* a search with an upper-case query kept some records and dropped others
C10_Witness ==
    /\ pc = "done"
    /\ call.op = "search"
    /\ call.query = <<"A", "B">>
    /\ 0 < Len(outcome.items)
    /\ Len(outcome.items) < Len(all_articles.items)

----------------------------------------------------------------------------
(* Single-source fetches                                                   *)

RedditOps == {"get_subreddit_posts", "search_subreddit"}

\* a single-source fetch that reached its transport call is over
SingleDone ==
    /\ pc = "done"
    /\ parseCalls = 1
    /\ \/ call.op \in RedditOps
       \/ (call.op \in {"fetch_feed", "fetch_news"} /\ call.source \in FeedNames)

\* the transport call raised, answered with an error status, or delivered
\* a body that does not parse
TransportFailed ==
    IF call.op \in RedditOps
    THEN response.net = "error" \/ ~(response.status \in 200..299) \/ ~response.json
    ELSE response.raised

\* the raw records of the page, in the payload's order
RawRecords ==
    IF call.op \in RedditOps THEN Children(response.data) ELSE response.entries

\* the record the fetch builds from the k-th raw record
RecordOf(k) ==
    IF call.op \in RedditOps
    THEN RedditPost(Get(RawRecords[k], "data", <<>>), call.source)
    ELSE NewsArticle(RawRecords[k], call.source)

\* the cap on the records of one fetch
PerSourceLimit ==
    IF call.op \in RedditOps
    THEN (IF MaxLimit < call.limit THEN MaxLimit ELSE call.limit)
    ELSE FeedLimit

(* C6  As claimed: a single-source fetch whose transport call failed does  *)
(* not raise: it ends by returning a value.                                *)
C6_FailureReturned ==
    (SingleDone /\ TransportFailed) => outcome.kind # "exc"

(* C6  As amended: a fault raised by the transport call of a single-source *)
(* fetch (client.get, raise_for_status, response.json, the awaited         *)
(* feedparser.parse) leaves the fetch as that raised fault: the caller     *)
(* gets the fault and no record, and no failure value is returned.         *)
C6_FaultRaised ==
    (SingleDone /\ TransportFailed) =>
        /\ outcome.kind = "exc"
        /\ outcome.items = <<>>
        /\ outcome.err \in {"TransportError", "HTTPStatusError", "JSONDecodeError"}

\* get_subreddit_posts got an answer with an error status or a bad body
C6_Witness ==
    /\ SingleDone
    /\ call.op = "get_subreddit_posts"
    /\ response.net = "ok"
    /\ TransportFailed

----------------------------------------------------------------------------
(* C7  A single-source fetch whose transport call and payload parse        *)
(* succeeded returns a list with one record per raw record taken, whatever *)
(* fields the raw records miss or hold with the wrong type.                *)
C7_MalformedAbsorbed ==
    (SingleDone /\ ~TransportFailed) =>
        /\ outcome.kind = "list"
        /\ Len(outcome.items) =
               (IF call.op \in RedditOps \/ Len(RawRecords) < FeedLimit
                THEN Len(RawRecords) ELSE FeedLimit)

----------------------------------------------------------------------------
(* C9  A single-source fetch that returned a list returned at most         *)
(* PerSourceLimit records, and they are the records of the leading raw     *)
(* records of the payload, in the payload's order.                         *)
C9_LimitHonoured ==
    (SingleDone /\ outcome.kind = "list") =>
        /\ Len(outcome.items) <= PerSourceLimit
        /\ Len(outcome.items) <= Len(RawRecords)
        /\ \A k \in 1..Len(outcome.items) : outcome.items[k] = RecordOf(k)

====
